---------------------------- MODULE Spec2Model ----------------------------
(***************************************************************************)
(* Model of the two Latin word parsers of whitakers_words:                 *)
(*   - parser.py : Parser.parse -> Word / Form / Analysis objects          *)
(*   - parse.py  : Parser.parse -> list of result dictionaries             *)
(* A text is a sequence of one-character strings.  One parse call is run   *)
(* as a sequence of steps (validate, split, one step per Form / per word,  *)
(* return); the data layer is a variable so that its frame can be stated.  *)
(***************************************************************************)
EXTENDS Integers, Sequences, FiniteSets, TLC

(* ------------------------------ bounds -------------------------------- *)
\* longest input text
MaxLen == 3

(* --------------------------- characters ------------------------------- *)
LowerLetters == {"a", "e", "q", "u"}
UpperLetters == {"A"}
OtherChars == {"1"}
Chars == LowerLetters \cup UpperLetters \cup OtherChars

\* str.isalpha() on one character
IsAlphaChar(c) == c \in LowerLetters \cup UpperLetters

\* str.lower() on one character
LowerChar(c) == IF c = "A" THEN "a" ELSE c

\* all texts of length 0..n
RECURSIVE TextsUpTo(_)
TextsUpTo(n) ==
    IF n = 0 THEN {<<>>}
    ELSE LET shorter == TextsUpTo(n - 1)
         IN  shorter \cup {Append(t, c) : t \in {s \in shorter : Len(s) = n - 1}, c \in Chars}

Texts == TextsUpTo(MaxLen)

(* ------------------------- string operations -------------------------- *)
\* str.isalpha(): non-empty and every character alphabetic
IsAlphaFirstOnly(text) == Len(text) > 0 /\ IsAlphaChar(text[1])
IsAlpha(text) == Len(text) > 0 /\ \A k \in 1..Len(text) : IsAlphaChar(text[k])

\* str.lower()
Lower(text) == [k \in 1..Len(text) |-> LowerChar(text[k])]

\* s.endswith(suf)
EndsWith(s, suf) ==
    /\ Len(suf) <= Len(s)
    /\ SubSeq(s, Len(s) - Len(suf) + 1, Len(s)) = suf

\* s.startswith(pre)
StartsWith(s, pre) ==
    /\ Len(pre) <= Len(s)
    /\ SubSeq(s, 1, Len(pre)) = pre

\* re.sub(suf + "$", "", s) for an alphabetic suf that s ends with
StripSuffix(s, suf) == SubSeq(s, 1, Len(s) - Len(suf))

\* re.sub("^" + pre, "", s) for an alphabetic pre that s starts with
StripPrefix(s, pre) == SubSeq(s, Len(pre) + 1, Len(s))

\* s[-n:] for 1 <= n <= len(s)
Tail_n(s, n) == SubSeq(s, Len(s) - n + 1, Len(s))

Min(a, b) == IF a < b THEN a ELSE b

RECURSIVE Concat(_)
Concat(ss) == IF ss = <<>> THEN <<>> ELSE Head(ss) \o Concat(Tail(ss))

(* ---------------------------- data layer ------------------------------ *)
\* Addon entries (data/addons.py): orth, pos (a text of blank-separated
\* position tokens, kept as its pieces), senses, aid
TackE == [orth |-> <<"e">>, pos |-> <<"X">>, senses |-> "and", aid |-> 1]
TackA == [orth |-> <<"a">>, pos |-> <<"N">>, senses |-> "own", aid |-> 2]
PackUE == [orth |-> <<"u", "e">>, pos |-> <<"PACK">>, senses |-> "ever", aid |-> 3]
PackE == [orth |-> <<"e">>, pos |-> <<"PACK">>, senses |-> "any", aid |-> 4]
NotPackUE == [orth |-> <<"u", "e">>, pos |-> <<"PACK">>, senses |-> "ever", aid |-> 5]
NotPackE == [orth |-> <<"e">>, pos |-> <<"PACK">>, senses |-> "any", aid |-> 6]
PrefE == [orth |-> <<"e">>, pos |-> <<"X">>, senses |-> "out", aid |-> 7]
PrefEQ == [orth |-> <<"e", "q">>, pos |-> <<"X">>, senses |-> "out of", aid |-> 8]
SuffQ == [orth |-> <<"q">>, pos |-> <<"X">>, senses |-> "ish", aid |-> 9]
SuffUQ == [orth |-> <<"u", "q">>, pos |-> <<"X">>, senses |-> "like", aid |-> 10]

\* the '' that parse.py stores as 'encl' of the unsplit word
NoAddon == [orth |-> <<>>, pos |-> <<>>, senses |-> "", aid |-> -1]

AddonsFull ==
    [tackons |-> <<TackE, TackA>>,
     packons |-> <<PackUE, PackE>>,
     not_packons |-> <<NotPackUE, NotPackE>>,
     prefixes |-> <<PrefE, PrefEQ>>,
     suffixes |-> <<SuffQ, SuffUQ>>]

\* a table without the optional tackons / prefixes lists
AddonsSparse ==
    [packons |-> <<PackE>>,
     not_packons |-> <<NotPackE, NotPackUE>>,
     suffixes |-> <<SuffUQ, SuffQ>>]

\* DictEntry: id, pos, parts, senses; a reserved slot is the empty entry
EmptyEntry == [id |-> -1, pos |-> "", parts |-> <<>>, senses |-> <<>>]
EntryQ == [id |-> 0, pos |-> "N", parts |-> << <<"q">>, <<"q">> >>, senses |-> <<"thing">>]
EntryA == [id |-> 1, pos |-> "V",
           parts |-> << <<"a">>, <<"a">>, <<"a", "e">>, <<"a", "a">> >>,
           senses |-> <<"do">>]
EntryU == [id |-> 2, pos |-> "N", parts |-> << <<"u">>, <<"u">> >>, senses |-> <<"place">>]

\* wordlist is a Python list: slot wid is element wid + 1 of the sequence
WordlistFull == <<EntryQ, EntryA, EntryU>>
WordlistReserved == <<EmptyEntry, EntryA, EmptyEntry>>
WordlistShort == <<EntryQ, EntryA>>
Wordlists == {WordlistFull, WordlistReserved, WordlistShort}

\* Stem: orth, pos, n (category), form, wid, props
StemQ == [orth |-> <<"q">>, pos |-> "N", n |-> <<2, 1>>, form |-> <<"M", "T">>,
          wid |-> 0, props |-> "p0"]
StemA == [orth |-> <<"a">>, pos |-> "V", n |-> <<1, 1>>, form |-> <<"X">>,
          wid |-> 1, props |-> "p1"]
StemAA == [orth |-> <<"a", "a">>, pos |-> "V", n |-> <<1, 1>>, form |-> <<"X">>,
           wid |-> 1, props |-> "p2"]
StemU == [orth |-> <<"u">>, pos |-> "N", n |-> <<2, 1>>, form |-> <<"M", "T">>,
          wid |-> 2, props |-> "p3"]
\* further stems of headword 2 with the spelling of StemU
StemUF == [orth |-> <<"u">>, pos |-> "N", n |-> <<2, 1>>, form |-> <<"F", "T">>,
           wid |-> 2, props |-> "p4"]
StemUM == [orth |-> <<"u">>, pos |-> "N", n |-> <<2, 1>>, form |-> <<"M", "T">>,
           wid |-> 2, props |-> "p5"]

StemsPlain ==
    (<<"q">> :> <<StemQ>>) @@ (<<"a">> :> <<StemA>>) @@ (<<"a", "a">> :> <<StemAA>>)
    @@ (<<"u">> :> <<StemU>>)
StemsShared ==
    (<<"q">> :> <<StemQ>>) @@ (<<"a">> :> <<StemA>>) @@ (<<"a", "a">> :> <<StemAA>>)
    @@ (<<"u">> :> <<StemU, StemUF, StemUM>>)

Wordkeys == {<<"q">>, <<"u">>, <<"a">>}

\* Inflect: ending, pos, n (category), form (feature names), iid
InflN0 == [ending |-> <<>>, pos |-> "N", n |-> <<2, 1>>,
           form |-> <<"NOM", "S", "C">>, iid |-> 10]
InflNa == [ending |-> <<"a">>, pos |-> "N", n |-> <<2, 1>>,
           form |-> <<"NOM", "S", "C">>, iid |-> 11]
InflNe == [ending |-> <<"e">>, pos |-> "N", n |-> <<2, 2>>,
           form |-> <<"NOM", "S", "F">>, iid |-> 12]
InflVu == [ending |-> <<"u">>, pos |-> "V", n |-> <<1, 1>>,
           form |-> <<"PRES", "ACTIVE", "IND", "3", "S">>, iid |-> 13]
InflPu == [ending |-> <<"u">>, pos |-> "VPAR", n |-> <<1, 1>>,
           form |-> <<"NOM", "S", "M", "PERF", "PASSIVE", "PPL">>, iid |-> 14]
InflPau == [ending |-> <<"a", "u">>, pos |-> "VPAR", n |-> <<1, 1>>,
            form |-> <<"NOM", "S", "M", "PRES", "ACTIVE", "PPL">>, iid |-> 15]

\* inflects: ending length (the key str(length)) -> ending -> list of Inflect
Inflects ==
    (0 :> (<<>> :> <<InflN0>>))
    @@ (1 :> ((<<"a">> :> <<InflNa>>) @@ (<<"e">> :> <<InflNe>>)
              @@ (<<"u">> :> <<InflVu, InflPu>>)))
    @@ (2 :> (<<"a", "u">> :> <<InflPau>>))

\* empty: part of speech -> the zero-length Inflects
EmptyTable == ("N" :> <<InflN0>>) @@ ("V" :> <<>>)

\* Unique: orth, pos, n, form, senses
UniqueQA == [orth |-> <<"q", "a">>, pos |-> "PRON", n |-> <<1, 0>>,
             form |-> <<"NOM", "S", "F", "REL">>, senses |-> <<"who">>]
\* a second reading of the same text with the same grammatical form
UniqueQA2 == [orth |-> <<"q", "a">>, pos |-> "PRON", n |-> <<1, 0>>,
              form |-> <<"NOM", "S", "F", "REL">>, senses |-> <<"which">>]

\* two readings of one text with the same grammatical form
UniqueEU == [orth |-> <<"e", "u">>, pos |-> "ADJ", n |-> <<9, 9>>,
             form |-> <<"X", "X", "X", "POS">>, senses |-> <<"good">>]
UniqueEU2 == [orth |-> <<"e", "u">>, pos |-> "ADJ", n |-> <<9, 9>>,
              form |-> <<"X", "X", "X", "POS">>, senses |-> <<"well">>]

UniquesNone == [k \in {} |-> <<>>]
UniquesOne == (<<"q", "a">> :> <<UniqueQA>>)
UniquesTwo == (<<"q", "a">> :> <<UniqueQA, UniqueQA2>>) @@ (<<"e", "u">> :> <<UniqueEU, UniqueEU2>>)

\* the combinations of stem, unique and addon tables that are loaded
TableSets ==
    {<<StemsPlain, UniquesNone, AddonsSparse>>,
     <<StemsPlain, UniquesOne, AddonsFull>>,
     <<StemsShared, UniquesNone, AddonsFull>>,
     <<StemsShared, UniquesTwo, AddonsFull>>}

DataLayers ==
    {[wordlist |-> w, wordkeys |-> Wordkeys, stems |-> ts[1], uniques |-> ts[2],
      inflects |-> Inflects, empty |-> EmptyTable, addons |-> ts[3]] :
        w \in Wordlists, ts \in TableSets}

(* ------------------------------ state --------------------------------- *)
VARIABLES
    data,           \* the injected data layer (Parser.data / Parser.wordlist ...)
    data0,          \* the data layer as it was loaded, before the first call
    pc,             \* position of the running parse call
    impl,           \* "new" = parser.py, "old" = parse.py, "none" = no call
    text,           \* the argument of the running call
    apply_filters,  \* parser.py: parse(text, apply_filters)
    wtext,          \* Word.text (parser.py) / returned 'word' (parse.py)
    forms,          \* Word.forms (parser.py)
    words,          \* parse.py: words, the list of {'base', 'encl'}
    parse_result,   \* parse.py: parse_result
    idx,            \* index of the next Form / word of the loop
    outcome,        \* "none", "returned" or the name of the exception raised
    reductions      \* parse.py: the calls of Parser.reduce made by the running call

vars == <<data, data0, pc, impl, text, apply_filters, wtext, forms, words,
          parse_result, idx, outcome, reductions>>

(* --------------------------- in-place updates ------------------------- *)
\* An assignment or list update of the code changes one object: one that the
\* running call created (owner "call") or one of the data layer (owner
\* "data": item of the list stems[key], or slot key of wordlist).
SetField(rec, f, v) == [x \in DOMAIN rec \cup {f} |-> IF x = f THEN v ELSE rec[x]]

apply_write(d, w) ==
    IF w.owner # "data" THEN d
    ELSE IF w.table = "stems"
    THEN [d EXCEPT !.stems[w.key] =
            [j \in DOMAIN @ |-> IF @[j] = w.item THEN SetField(@[j], w.field, w.value)
                                 ELSE @[j]]]
    ELSE [d EXCEPT !.wordlist[w.key + 1] = SetField(@, w.field, w.value)]

RECURSIVE apply_writes(_, _)
apply_writes(d, writes) ==
    IF writes = <<>> THEN d
    ELSE apply_writes(apply_write(d, Head(writes)), Tail(writes))

(* ------------------------- parser.py: objects ------------------------- *)
\* str.split() of a text kept as its pieces
Split(pieces) == SelectSeq(pieces, LAMBDA p : p # " ")

\* Enclitic.__init__
Enclitic(addon) ==
    [text |-> addon.orth,
     position |-> Split(addon.pos),
     senses |-> addon.senses,
     id |-> addon.aid]

\* the None of Form.enclitic / Analysis.enclitic
NoEnclitic == [text |-> <<>>, position |-> <<>>, senses |-> "", id |-> -1]

\* Form.__init__
Form(t, enclitic) == [text |-> t, analyses |-> <<>>, enclitic |-> enclitic]

(* ----------------------- parser.py: segmentation ---------------------- *)
\* Word.find_enclitic: one Form per entry of the list that is a suffix of the
\* text and leaves a base
RECURSIVE find_enclitic_list(_, _)
find_enclitic_list(affixes, wt) ==
    IF affixes = <<>> THEN <<>>
    ELSE LET affix == Head(affixes)
             affix_text == affix.orth
             rest == find_enclitic_list(Tail(affixes), wt)
         IN  IF EndsWith(wt, affix_text)
             THEN LET base == StripSuffix(wt, affix_text)
                  IN  IF base # <<>>
                      THEN <<Form(base, Enclitic(affix))>> \o rest
                      ELSE rest
             ELSE rest

find_enclitic(list_name, d, wt) ==
    IF list_name \in DOMAIN d.addons
    THEN find_enclitic_list(d.addons[list_name], wt)
    ELSE <<>>

\* Word.split_form_enclitic
Word_split_form_enclitic(d, wt) ==
    <<Form(wt, NoEnclitic)>>
    \o find_enclitic("tackons", d, wt)
    \o (IF StartsWith(wt, <<"q", "u">>)
        THEN find_enclitic("packons", d, wt)
        ELSE find_enclitic("not_packons", d, wt))

(* ------------------------ parse.py: segmentation ---------------------- *)
\* the tackons loop of Parser.split_form_enclitic
RECURSIVE split_tackons(_, _)
split_tackons(es, s) ==
    IF es = <<>> THEN <<>>
    ELSE LET e == Head(es)
             rest == split_tackons(Tail(es), s)
         IN  IF EndsWith(s, e.orth) /\ s # <<"e", "s", "t">>
             THEN <<[base |-> StripSuffix(s, e.orth), encl |-> e]>> \o rest
             ELSE rest

\* the packons / not_packons loop of Parser.split_form_enclitic (with break)
RECURSIVE split_packons(_, _)
split_packons(es, s) ==
    IF es = <<>> THEN <<>>
    ELSE LET e == Head(es)
         IN  IF EndsWith(s, e.orth) /\ StripSuffix(s, e.orth) # <<>>
             THEN <<[base |-> StripSuffix(s, e.orth), encl |-> e]>>
             ELSE split_packons(Tail(es), s)

\* Parser.split_form_enclitic
Parser_split_form_enclitic(d, s) ==
    LET lst == IF StartsWith(s, <<"q", "u">>) THEN "packons" ELSE "not_packons"
    IN  <<[base |-> s, encl |-> NoAddon]>>
        \o (IF "tackons" \in DOMAIN d.addons
            THEN split_tackons(d.addons["tackons"], s) ELSE <<>>)
        \o (IF lst \in DOMAIN d.addons
            THEN split_packons(d.addons[lst], s) ELSE <<>>)

(* ------------------------- dictionary lookups ------------------------- *)
\* wordlist[wid] succeeds (no IndexError)
InRange(wordlist, wid) == wid >= 0 /\ wid < Len(wordlist)

\* wordlist[wid]
Slot(wordlist, wid) == wordlist[wid + 1]

\* truth value of a wordlist slot ("if dict_word:")
Truthy(dict_word) == dict_word # EmptyEntry

\* x in parts
InSeq(x, parts) == \E k \in 1..Len(parts) : parts[k] = x

(* ----------------- parser.py: Matcher(stem, infl).check() ------------- *)
\* the perfect-tense feature slice of a participle ending
IsPerfect(infl) == Len(infl.form) >= 4 /\ infl.form[4] = "PERF"

\* congruence of a stem and an ending, rules 1-4 of the Congruence Matcher
Matcher_check(stem, infl, wordlist) ==
    IF infl.pos # stem.pos
    THEN /\ infl.pos = "VPAR"
         /\ stem.pos = "V"
         /\ InRange(wordlist, stem.wid)
         /\ Truthy(Slot(wordlist, stem.wid))
         /\ LET parts == Slot(wordlist, stem.wid).parts
            IN  /\ parts # <<>>
                /\ IF IsPerfect(infl)
                   THEN stem.orth = parts[Len(parts)]
                   ELSE stem.orth = parts[1]
    ELSE IF stem.pos = "N"
    THEN /\ infl.n # <<>> /\ stem.n # <<>> /\ infl.form # <<>> /\ stem.form # <<>>
         /\ \/ infl.n = stem.n
            \/ infl.n[1] = stem.n[1] /\ stem.n[Len(stem.n)] = 0
         /\ \/ infl.form[Len(infl.form)] = stem.form[1]
            \/ infl.form[Len(infl.form)] = "C"
    ELSE IF stem.pos = "ADV"
    THEN IF stem.form = <<"X">>
         THEN /\ InRange(wordlist, stem.wid)
              /\ Truthy(Slot(wordlist, stem.wid))
              /\ InSeq(stem.orth, Slot(wordlist, stem.wid).parts)
         ELSE stem.form = infl.form
    ELSE /\ stem.n # <<>> /\ infl.n # <<>>
         /\ infl.n[1] = stem.n[1]

(* ---------------------- parser.py: view objects ----------------------- *)
\* the feature slots of a part of speech (Inflection.analyse_features)
FeatureSlots(wordType) ==
    CASE wordType = "N" -> <<"Case", "Number", "Gender">>
      [] wordType = "NUM" -> <<"Case", "Number", "Gender", "NumeralType">>
      [] wordType = "PRON" -> <<"Case", "Number", "Gender", "PronounType">>
      [] wordType = "ADJ" -> <<"Case", "Number", "Gender", "Degree">>
      [] wordType = "V" -> <<"Tense", "Voice", "Mood", "Person", "Number">>
      [] wordType = "VPAR" -> <<"Case", "Number", "Gender", "Tense", "Voice">>
      [] wordType = "ADV" -> <<"Degree">>
      [] OTHER -> <<>>

\* Inflection.analyse_features: the dict slot -> value of features[:len(lst)]
analyse_features(wordType, features) ==
    LET lst == FeatureSlots(wordType)
        cnt == Min(Len(lst), Len(features))
    IN  [slot \in {lst[k] : k \in 1..cnt} |->
            features[CHOOSE k \in 1..cnt : lst[k] = slot]]

\* Inflection.override_features
override_features(wordType, features, stem) ==
    IF wordType = "N" /\ stem.form # <<>>
    THEN [slot \in DOMAIN features \cup {"Gender"} |->
            IF slot = "Gender" THEN stem.form[1] ELSE features[slot]]
    ELSE features

\* Inflection.__init__
Inflection(infl, stem) ==
    [wordType |-> infl.pos,
     category |-> infl.n,
     stem |-> stem.orth,
     affix |-> infl.ending,
     features |-> override_features(infl.pos, analyse_features(infl.pos, infl.form), stem),
     id |-> infl.iid]

\* UniqueInflection.__init__ (no id attribute; category only when given)
UniqueInflection(unique) ==
    [wordType |-> unique.pos,
     category |-> IF "n" \in DOMAIN unique THEN unique.n ELSE <<>>,
     stem |-> unique.orth,
     affix |-> <<>>,
     features |-> analyse_features(unique.pos, unique.form),
     id |-> -1]

\* Inflection.__eq__
InflectionEq(x, y) ==
    /\ x.affix = y.affix
    /\ x.wordType = y.wordType
    /\ x.category = y.category
    /\ x.features = y.features

\* "inflection in inflections" (list membership by __eq__)
InflectionIn(x, inflections) ==
    \E k \in 1..Len(inflections) : InflectionEq(x, inflections[k])

\* Lexeme.__init__
Lexeme(stem) ==
    [id |-> stem.wid, category |-> stem.n, roots |-> <<>>, senses |-> <<>>,
     wordType |-> stem.pos, form |-> stem.form, props |-> stem.props,
     unique |-> FALSE]

\* UniqueLexeme.__init__
UniqueLexeme(unique) ==
    [id |-> 0, category |-> <<>>, roots |-> <<>>, senses |-> unique.senses,
     wordType |-> unique.pos, form |-> <<>>, props |-> "",
     unique |-> TRUE]

\* Analysis.__init__
Analysis(lexeme, inflections) ==
    [lexeme |-> lexeme, root |-> <<>>, inflections |-> inflections,
     enclitic |-> NoEnclitic]

(* -------------- parser.py: dict[int, Analysis], in insertion order ---- *)
\* a dict is the sequence of its items [k, v]
HasKey(dict, k) == \E j \in 1..Len(dict) : dict[j].k = k
KeyPos(dict, k) == CHOOSE j \in 1..Len(dict) : dict[j].k = k
Get(dict, k) == dict[KeyPos(dict, k)].v

\* dict[k] = v
Put(dict, k, v) ==
    IF HasKey(dict, k)
    THEN [dict EXCEPT ![KeyPos(dict, k)] = [k |-> k, v |-> v]]
    ELSE Append(dict, [k |-> k, v |-> v])

\* dict.update(other)
RECURSIVE Update(_, _)
Update(dict, other) ==
    IF other = <<>> THEN dict
    ELSE Update(Put(dict, Head(other).k, Head(other).v), Tail(other))

(* ------------------------- parser.py: Form ---------------------------- *)
\* Form.analyse_unique
analyse_unique(analyses, unique_form) ==
    IF analyses # <<>>
    THEN [analyses EXCEPT ![KeyPos(analyses, 0)].v.inflections =
            Append(@, UniqueInflection(unique_form))]
    ELSE <<[k |-> 0,
            v |-> Analysis(UniqueLexeme(unique_form), <<UniqueInflection(unique_form)>>)]>>

\* Word.analyse, lines 246-248
RECURSIVE analyse_uniques(_, _)
analyse_uniques(analyses, unique_forms) ==
    IF unique_forms = <<>> THEN analyses
    ELSE analyse_uniques(analyse_unique(analyses, Head(unique_forms)), Tail(unique_forms))

\* Form.analyse, lines 159-164: the zero-length endings of the undeclined word;
\* order is an iteration order of the set wordtypes
undeclined_inflections(ftext, d, order) ==
    IF ftext \in d.wordkeys /\ ftext \in DOMAIN d.stems
    THEN Concat([k \in 1..Len(order) |-> d.empty[order[k]]])
    ELSE <<>>

\* the set wordtypes of Form.analyse, line 161
wordtypes(ftext, d) ==
    IF ftext \in d.wordkeys /\ ftext \in DOMAIN d.stems
    THEN {d.stems[ftext][k].pos : k \in 1..Len(d.stems[ftext])}
    ELSE {}

\* the iteration orders of a set
Orders(S) ==
    {o \in [1..Cardinality(S) -> S] : \A a \in S : \E k \in DOMAIN o : o[k] = a}

\* Form.analyse, lines 167-174: the endings registered for a tail of the text
MaxInflectLength == 8

suffix_inflections(ftext, d) ==
    Concat([inflect_length \in 1..(Min(MaxInflectLength, Len(ftext)) - 1) |->
        IF /\ inflect_length \in DOMAIN d.inflects
           /\ Tail_n(ftext, inflect_length) \in DOMAIN d.inflects[inflect_length]
        THEN d.inflects[inflect_length][Tail_n(ftext, inflect_length)]
        ELSE <<>>])

\* the stem spelling left by an ending (lines 215-218)
stem_lemma(ftext, ending) ==
    IF ending # <<>>
    THEN SubSeq(ftext, 1, Len(ftext) - Len(ending))
    ELSE ftext

\* the pairs (infl_cand, stem_cand) in the order the two loops of
\* Form.match_stems_inflections visit them
candidate_pairs(ftext, viable_inflections, d) ==
    Concat([i \in 1..Len(viable_inflections) |->
        LET infl_cand == viable_inflections[i]
            lemma == stem_lemma(ftext, infl_cand.ending)
        IN  IF lemma \in DOMAIN d.stems
            THEN [j \in 1..Len(d.stems[lemma]) |->
                    [infl |-> infl_cand, stem |-> d.stems[lemma][j]]]
            ELSE <<>>])

\* Form.match_stems_inflections, lines 222-232: one matching pair
add_match(matched_stems, stem_cand, infl_cand) ==
    LET word_id == stem_cand.wid
        inflection == Inflection(infl_cand, stem_cand)
    IN  IF HasKey(matched_stems, word_id)
        THEN IF ~InflectionIn(inflection, Get(matched_stems, word_id).inflections)
             THEN [matched_stems EXCEPT ![KeyPos(matched_stems, word_id)].v.inflections =
                    Append(@, inflection)]
             ELSE matched_stems
        ELSE Put(matched_stems, word_id, Analysis(Lexeme(stem_cand), <<inflection>>))

RECURSIVE match_pairs(_, _, _)
match_pairs(pairs, d, matched_stems) ==
    IF pairs = <<>> THEN matched_stems
    ELSE LET p == Head(pairs)
         IN  match_pairs(Tail(pairs), d,
                IF Matcher_check(p.stem, p.infl, d.wordlist)
                THEN add_match(matched_stems, p.stem, p.infl)
                ELSE matched_stems)

\* Form.match_stems_inflections
Form_match_stems_inflections(ftext, viable_inflections, d) ==
    match_pairs(candidate_pairs(ftext, viable_inflections, d), d, <<>>)

\* Analysis.lookup_stem raises IndexError
lookup_stem_raises(analysis, wordlist) == ~InRange(wordlist, analysis.lexeme.id)

\* Analysis.lookup_stem, for an id in range
lookup_stem(analysis, wordlist) ==
    LET dict_word == Slot(wordlist, analysis.lexeme.id)
    IN  IF Truthy(dict_word)
        THEN [analysis EXCEPT !.lexeme.roots = dict_word.parts,
                              !.lexeme.senses = dict_word.senses]
        ELSE analysis

\* Form.analyse, lines 177-181, up to the first exception
form_matches(form, d, order) ==
    Form_match_stems_inflections(form.text,
        undeclined_inflections(form.text, d, order) \o suffix_inflections(form.text, d), d)

Form_analyse_raises(form, d, order) ==
    LET analyses == form_matches(form, d, order)
    IN  \E j \in 1..Len(analyses) : lookup_stem_raises(analyses[j].v, d.wordlist)

\* Form.analyse, when no lookup raises
Form_analyse(form, d, order) ==
    LET matched == form_matches(form, d, order)
        analyses == [j \in 1..Len(matched) |->
                        [k |-> matched[j].k,
                         v |-> lookup_stem([matched[j].v EXCEPT !.enclitic = form.enclitic],
                                           d.wordlist)]]
    IN  [form EXCEPT !.analyses =
            IF form.analyses # <<>> THEN Update(form.analyses, analyses) ELSE analyses]

\* Analysis.lookup_stem, lines 131-132: roots and senses are set on the Lexeme
\* of the call, which Lexeme.__init__ created
lookup_stem_write(analysis, wordlist) ==
    [owner |-> "call", table |-> "wordlist", key |-> analysis.lexeme.id,
     item |-> <<>>, field |-> "roots", value |-> Slot(wordlist, analysis.lexeme.id).parts]

\* the in-place updates of Form.analyse when no lookup raises
Form_analyse_writes(form, d, order) ==
    LET matched == form_matches(form, d, order)
        hits == SelectSeq(matched, LAMBDA item : Truthy(Slot(d.wordlist, item.v.lexeme.id)))
    IN  [j \in 1..Len(hits) |-> lookup_stem_write(hits[j].v, d.wordlist)]

\* Form.filter_analysis
filter_analysis(analysis) ==
    IF analysis.enclitic # NoEnclitic
    THEN \/ analysis.enclitic.position[1] \in {"X", "PACK"}
         \/ analysis.enclitic.position[1] = analysis.lexeme.wordType
    ELSE analysis.lexeme.roots # <<>> \/ analysis.lexeme.unique

\* Form.filter_good_analyses
filter_good_analyses(form) ==
    [form EXCEPT !.analyses = SelectSeq(@, LAMBDA item : filter_analysis(item.v))]

\* Word.filter_good_forms
filter_good_forms(fs) == SelectSeq(fs, LAMBDA form : form.analyses # <<>>)

\* Word.get_analyses
get_analyses(fs) ==
    Concat([i \in 1..Len(fs) |-> [j \in 1..Len(fs[i].analyses) |-> fs[i].analyses[j].v]])

\* Word.analyse, lines 246-248: the uniques of one Form
form_with_uniques(form, d) ==
    IF form.text \in DOMAIN d.uniques
    THEN [form EXCEPT !.analyses = analyse_uniques(@, d.uniques[form.text])]
    ELSE form

(* ------------------- parse.py: form texts of the tables --------------- *)
\* the spelling of a feature name
Spell(tok) ==
    CASE tok = "NOM" -> <<"N", "O", "M">>
      [] tok = "PERF" -> <<"P", "E", "R", "F">>
      [] tok = "PRES" -> <<"P", "R", "E", "S">>
      [] tok = "PASSIVE" -> <<"P", "A", "S", "S", "I", "V", "E">>
      [] tok = "ACTIVE" -> <<"A", "C", "T", "I", "V", "E">>
      [] tok = "PPL" -> <<"P", "P", "L">>
      [] tok = "IND" -> <<"I", "N", "D">>
      [] tok = "REL" -> <<"R", "E", "L">>
      [] tok = "POS" -> <<"P", "O", "S">>
      [] OTHER -> <<tok>>

\* parse.py reads 'form' as one text: the feature names joined by blanks
RECURSIVE FormText(_)
FormText(toks) ==
    IF toks = <<>> THEN <<>>
    ELSE IF Len(toks) = 1 THEN Spell(toks[1])
    ELSE Spell(toks[1]) \o <<" ">> \o FormText(Tail(toks))

\* s[a:b] of Python, 0 <= a <= b
Slice(str, a, b) == SubSeq(str, a + 1, Min(b, Len(str)))

(* ------------------------ parse.py: check_match ----------------------- *)
PerfFrom == 8
PerfTo == 12

\* Parser.check_match, lines 149-151 and the fall through to line 162
check_match_noun(stem, infl) ==
    IF infl.n = stem.n \/ (infl.n[1] = stem.n[1] /\ infl.n[Len(infl.n)] = 0)
    THEN LET it == FormText(infl.form)
             st == FormText(stem.form)
         IN  it[Len(it)] = st[1] \/ it[Len(it)] = "C"
    ELSE Len(stem.n) # 0 /\ infl.n[1] = stem.n[1]

\* Parser.check_match (the truth value of what it returns)
check_match(stem, infl, wordlist) ==
    IF infl.pos # stem.pos
    THEN IF infl.pos = "VPAR" /\ stem.pos = "V"
         THEN IF ~InRange(wordlist, stem.wid) THEN FALSE
              ELSE LET wrd == Slot(wordlist, stem.wid)
                   IN  IF ~Truthy(wrd) THEN FALSE
                       ELSE IF Slice(FormText(infl.form), PerfFrom, PerfTo) = <<"P", "E", "R", "F">>
                            THEN stem.orth = wrd.parts[Len(wrd.parts)]
                            ELSE stem.orth = wrd.parts[1]
         ELSE FALSE
    ELSE IF stem.pos = "N" THEN check_match_noun(stem, infl)
    ELSE IF stem.pos = "ADV"
    THEN IF FormText(stem.form) = <<"X">>
         THEN IF ~InRange(wordlist, stem.wid) THEN FALSE
              ELSE LET wrd == Slot(wordlist, stem.wid)
                   IN  IF ~Truthy(wrd) THEN FALSE
                       ELSE InSeq(stem.orth, wrd.parts)
         ELSE FormText(stem.form) = FormText(infl.form)
    ELSE Len(stem.n) # 0 /\ infl.n[1] = stem.n[1]

(* ------------------- parse.py: match_stems_inflections ---------------- *)
\* the candidates (stem_cand, infl_cand) in the order the three loops visit
\* them; infls is a list of lists of Inflect
old_candidate_pairs(form, infls, d) ==
    Concat([i \in 1..Len(infls) |->
        LET infl_lemma == infls[i]
            lemma == stem_lemma(form, infl_lemma[1].ending)
        IN  IF lemma \in DOMAIN d.stems
            THEN Concat([j \in 1..Len(d.stems[lemma]) |->
                    [k \in 1..Len(infl_lemma) |->
                        [stem |-> d.stems[lemma][j], infl |-> infl_lemma[k]]]])
            ELSE <<>>])

\* the entry of one matched stem
MatchedStem(stem_cand, infl_cand) ==
    [st |-> stem_cand, infls |-> <<infl_cand>>, encl |-> NoAddon]

\* Parser.match_stems_inflections, lines 118-130: one matching candidate
old_add_match(matched_stems, stem_cand, infl_cand) ==
    IF HasKey(matched_stems, stem_cand.orth)
    THEN LET lst == Get(matched_stems, stem_cand.orth)
             hit == {i \in 1..Len(lst) : lst[i].st.wid = stem_cand.wid}
         IN  IF hit # {}
             THEN LET i == CHOOSE x \in hit : \A y \in hit : x <= y
                  IN  Put(matched_stems, stem_cand.orth,
                          [lst EXCEPT ![i].infls = Append(@, infl_cand)])
             ELSE Put(matched_stems, stem_cand.orth,
                      Append(lst, MatchedStem(stem_cand, infl_cand)))
    ELSE Put(matched_stems, stem_cand.orth, <<MatchedStem(stem_cand, infl_cand)>>)

RECURSIVE old_match_pairs(_, _, _)
old_match_pairs(pairs, d, matched_stems) ==
    IF pairs = <<>> THEN matched_stems
    ELSE LET p == Head(pairs)
         IN  old_match_pairs(Tail(pairs), d,
                IF check_match(p.stem, p.infl, d.wordlist)
                THEN old_add_match(matched_stems, p.stem, p.infl)
                ELSE matched_stems)

\* Parser.match_stems_inflections
Parser_match_stems_inflections(form, infls, d) ==
    old_match_pairs(old_candidate_pairs(form, infls, d), d, <<>>)

(* ------------------------- parse.py: lookup_stems --------------------- *)
\* list.index(x): the first position (from 0) of x; -1 stands for ValueError
IndexOf(parts, x) ==
    IF InSeq(x, parts)
    THEN (CHOOSE k \in 1..Len(parts) : parts[k] = x /\ \A j \in 1..(k - 1) : parts[j] # x) - 1
    ELSE -1

\* Parser.remove_extra_infls
remove_extra_infls(stem, remove_type) ==
    [stem EXCEPT !.infls = SelectSeq(@, LAMBDA infl : infl.pos # remove_type)]

FourthPart == 3

\* lines 198-208: the V / VPAR choice for a stem of a verb entry
disambiguate(dict_word, stem) ==
    IF dict_word.pos = "V"
    THEN IF IndexOf(dict_word.parts, stem.st.orth) = FourthPart
         THEN remove_extra_infls(stem, "V")
         ELSE remove_extra_infls(stem, "VPAR")
    ELSE stem

\* one turn of the inner loop of Parser.lookup_stems; res = [err, results]
lookup_one(res, stem, wordlist) ==
    IF res.err # "none" THEN res
    ELSE IF ~InRange(wordlist, stem.st.wid) THEN res
    ELSE LET dict_word == Slot(wordlist, stem.st.wid)
             results == res.results
             found == {i \in 1..Len(results) : results[i].w.id = dict_word.id}
         IN  IF ~Truthy(dict_word) THEN res
             ELSE IF found # {}
             THEN LET i == CHOOSE x \in found : \A y \in found : x <= y
                  IN  IF InSeq(stem, results[i].stems) THEN res
                      ELSE [res EXCEPT !.results[i].stems = Append(@, stem)]
             ELSE IF dict_word.pos = "V" /\ IndexOf(dict_word.parts, stem.st.orth) = -1
             THEN [res EXCEPT !.err = "ValueError"]
             ELSE [res EXCEPT !.results = Append(@,
                        [w |-> dict_word,
                         enclitic |-> stem.encl,
                         stems |-> <<disambiguate(dict_word, stem)>>])]

RECURSIVE lookup_all(_, _, _)
lookup_all(res, stems, wordlist) ==
    IF stems = <<>> THEN res
    ELSE lookup_all(lookup_one(res, Head(stems), wordlist), Tail(stems), wordlist)

\* Parser.lookup_stems: [err, results]
lookup_stems(match_stems, wordlist) ==
    lookup_all([err |-> "none", results |-> <<>>],
               Concat([i \in 1..Len(match_stems) |-> match_stems[i].v]), wordlist)

(* ---------------------- parse.py: analyze_forms, reduce --------------- *)
\* Parser.analyze_forms needs inflects["0"][''] and it is missing (KeyError)
undeclined_missing(form, d) ==
    /\ form \in d.wordkeys
    /\ ~(0 \in DOMAIN d.inflects /\ <<>> \in DOMAIN d.inflects[0])

\* Parser.analyze_forms, lines 69-80: the list of lists of endings
old_viable_inflections(form, d) ==
    (IF form \in d.wordkeys THEN <<d.inflects[0][<<>>]>> ELSE <<>>)
    \o SelectSeq(
        [inflect_length \in 1..(Min(MaxInflectLength, Len(form)) - 1) |->
            IF /\ inflect_length \in DOMAIN d.inflects
               /\ Tail_n(form, inflect_length) \in DOMAIN d.inflects[inflect_length]
            THEN d.inflects[inflect_length][Tail_n(form, inflect_length)]
            ELSE <<>>],
        LAMBDA l : l # <<>>)

\* Parser.analyze_forms, lines 83-87: the matched stems, each with its 'encl'
matched_with_encl(word, d) ==
    LET match_stems ==
            Parser_match_stems_inflections(word.base,
                old_viable_inflections(word.base, d), d)
    IN  [i \in 1..Len(match_stems) |->
            [k |-> match_stems[i].k,
             v |-> [j \in 1..Len(match_stems[i].v) |->
                        [match_stems[i].v[j] EXCEPT !.encl = word.encl]]]]

\* Parser.analyze_forms, lines 68-90: [err, results]
direct_forms(word, d) ==
    IF undeclined_missing(word.base, d) THEN [err |-> "KeyError", results |-> <<>>]
    ELSE lookup_stems(matched_with_encl(word, d), d.wordlist)

\* line 87, stem['encl'] = word['encl']: stem is the dictionary {'st', 'infls'}
\* that match_stems_inflections created for this call
encl_write_shared(matched_stem, word) ==
    [owner |-> "data", table |-> "stems", key |-> matched_stem.st.orth,
     item |-> matched_stem.st, field |-> "encl", value |-> word.encl]

encl_write(matched_stem, word) ==
    [owner |-> "call", table |-> "stems", key |-> matched_stem.st.orth,
     item |-> matched_stem.st, field |-> "encl", value |-> word.encl]

\* the in-place updates of one run of lines 83-87
encl_writes(word, d) ==
    IF undeclined_missing(word.base, d) THEN <<>>
    ELSE LET stems == Concat([i \in 1..Len(matched_with_encl(word, d)) |->
                                matched_with_encl(word, d)[i].v])
         IN  [j \in 1..Len(stems) |-> encl_write(stems[j], word)]

\* the first entry of an affix list that s starts / ends with, or NoAddon
RECURSIVE first_prefix(_, _)
first_prefix(prefixes, s) ==
    IF prefixes = <<>> THEN NoAddon
    ELSE IF StartsWith(s, Head(prefixes).orth) THEN Head(prefixes)
    ELSE first_prefix(Tail(prefixes), s)

RECURSIVE first_suffix(_, _)
first_suffix(suffixes, s) ==
    IF suffixes = <<>> THEN NoAddon
    ELSE IF EndsWith(s, Head(suffixes).orth) THEN Head(suffixes)
    ELSE first_suffix(Tail(suffixes), s)

\* the base left when every entry of a list that fits is stripped in turn
RECURSIVE strip_every_prefix(_, _)
strip_every_prefix(prefixes, s) ==
    IF prefixes = <<>> THEN s
    ELSE IF StartsWith(s, Head(prefixes).orth)
    THEN strip_every_prefix(Tail(prefixes), StripPrefix(s, Head(prefixes).orth))
    ELSE strip_every_prefix(Tail(prefixes), s)

RECURSIVE strip_every_suffix(_, _)
strip_every_suffix(suffixes, s) ==
    IF suffixes = <<>> THEN s
    ELSE IF EndsWith(s, Head(suffixes).orth)
    THEN strip_every_suffix(Tail(suffixes), StripSuffix(s, Head(suffixes).orth))
    ELSE strip_every_suffix(Tail(suffixes), s)

\* the two loops of Parser.reduce without their break
reduced_base_all(base, d) ==
    LET s1 == IF "prefixes" \in DOMAIN d.addons
              THEN strip_every_prefix(d.addons["prefixes"], base)
              ELSE base
    IN  IF "suffixes" \in DOMAIN d.addons
        THEN strip_every_suffix(d.addons["suffixes"], s1)
        ELSE s1

\* Parser.reduce, lines 254-270: the base left by the two strippings
reduced_base(base, d) ==
    LET s1 == IF "prefixes" \in DOMAIN d.addons
              THEN StripPrefix(base, first_prefix(d.addons["prefixes"], base).orth)
              ELSE base
    IN  IF "suffixes" \in DOMAIN d.addons
        THEN StripSuffix(s1, first_suffix(d.addons["suffixes"], s1).orth)
        ELSE s1

\* Parser.reduce: [err, results]
reduce(option, d) ==
    LET out == direct_forms([option EXCEPT !.base = reduced_base(option.base, d)], d)
        found_new_match == \E i \in 1..Len(out.results) : Len(out.results[i].stems) > 0
    IN  IF out.err # "none" THEN out
        ELSE IF out.results # <<>> /\ ~found_new_match
        THEN [out EXCEPT !.results = <<>>]
        ELSE out

\* Parser.analyze_forms(word) from Parser.parse (reduced = False): the
\* inner call of reduce runs with reduced = True and returns direct_forms
analyze_forms(word, d) ==
    LET direct == direct_forms(word, d)
    IN  IF direct.err # "none" THEN direct
        ELSE IF Len(direct.results) # 0 THEN direct
        ELSE reduce(word, d)

\* Parser.analyze_forms(word) calls reduce (lines 92-96)
reduce_called(word, d) ==
    LET direct == direct_forms(word, d)
    IN  direct.err = "none" /\ Len(direct.results) = 0

\* the calls of Parser.reduce that Parser.analyze_forms(word, reduced) makes
\* (lines 92-96), those of the run that reduce starts at line 271 included:
\* each with its option as passed, the base it left and the flag of its caller
RECURSIVE reduce_calls(_, _, _)
reduce_calls(word, reduced, d) ==
    LET direct == direct_forms(word, d)
    IN  IF direct.err # "none" \/ Len(direct.results) # 0 THEN <<>>
        ELSE IF ~reduced
        THEN LET option == [word EXCEPT !.base = reduced_base(word.base, d)]
             IN  <<[option |-> word, base |-> option.base, reduced |-> reduced]>>
                 \o reduce_calls(option, TRUE, d)
        ELSE <<>>

\* the calls of reduce for the word at position i of the loop of Parser.parse
reduce_calls_at(i, word, d) ==
    LET calls == reduce_calls(word, FALSE, d)
    IN  [k \in 1..Len(calls) |->
            [form |-> i, option |-> calls[k].option, base |-> calls[k].base,
             reduced |-> calls[k].reduced]]

\* the in-place updates of Parser.analyze_forms(word): those of the direct
\* run and, when reduce is called, of its run on the reduced base
analyze_forms_writes(word, d) ==
    LET direct == direct_forms(word, d)
    IN  IF direct.err = "none" /\ Len(direct.results) = 0
        THEN encl_writes(word, d)
             \o encl_writes([word EXCEPT !.base = reduced_base(word.base, d)], d)
        ELSE encl_writes(word, d)

\* parse.py Parser.parse, lines 54-57: the results of the uniques of a word
unique_results(word, d) ==
    [j \in 1..Len(d.uniques[word.base]) |->
        [w |-> d.uniques[word.base][j], enclitic |-> word.encl, stems |-> <<>>]]

(* ------------------------------ actions ------------------------------- *)
Init ==
    /\ data \in DataLayers
    /\ data0 = data
    /\ pc = "idle"
    /\ impl = "none"
    /\ text = <<>>
    /\ apply_filters = TRUE
    /\ wtext = <<>>
    /\ forms = <<>>
    /\ words = <<>>
    /\ parse_result = <<>>
    /\ idx = 0
    /\ outcome = "none"
    /\ reductions = <<>>

\* parser.py Parser.parse, lines 298-300: validation and Word(text)
ParseNew(t, af) ==
    /\ pc = "idle"
    /\ impl' = "new"
    /\ text' = t
    /\ apply_filters' = af
    /\ IF ~IsAlpha(t)
       THEN /\ outcome' = "WordsException"
            /\ pc' = "done"
            /\ wtext' = <<>>
       ELSE /\ outcome' = "none"
            /\ pc' = "n_split"
            /\ wtext' = Lower(t)
    /\ UNCHANGED <<data, data0, forms, words, parse_result, idx, reductions>>

\* parser.py Parser.parse, line 301
SplitNew ==
    /\ pc = "n_split"
    /\ forms' = Word_split_form_enclitic(data, wtext)
    /\ idx' = 1
    /\ pc' = "n_analyse"
    /\ UNCHANGED <<data, data0, impl, text, apply_filters, wtext, words, parse_result,
                   outcome, reductions>>

\* parser.py Word.analyse, lines 245-253: one turn of the loop over the Forms
AnalyseFormNew ==
    /\ pc = "n_analyse"
    /\ idx <= Len(forms)
    /\ LET form == form_with_uniques(forms[idx], data)
       IN  \E order \in Orders(wordtypes(form.text, data)) :
            IF \E k \in 1..Len(order) : order[k] \notin DOMAIN data.empty
            THEN /\ outcome' = "KeyError"
                 /\ pc' = "done"
                 /\ UNCHANGED <<data, forms, idx>>
            ELSE IF Form_analyse_raises(form, data, order)
            THEN /\ outcome' = "IndexError"
                 /\ pc' = "done"
                 /\ UNCHANGED <<data, forms, idx>>
            ELSE /\ forms' = [forms EXCEPT ![idx] =
                        IF apply_filters
                        THEN filter_good_analyses(Form_analyse(form, data, order))
                        ELSE Form_analyse(form, data, order)]
                 /\ data' = apply_writes(data, Form_analyse_writes(form, data, order))
                 /\ idx' = idx + 1
                 /\ UNCHANGED <<pc, outcome>>
    /\ UNCHANGED <<data0, impl, text, apply_filters, wtext, words, parse_result, reductions>>

\* parser.py Word.analyse, lines 254-255, and the return of Parser.parse
ReturnNew ==
    /\ pc = "n_analyse"
    /\ idx > Len(forms)
    /\ forms' = IF apply_filters THEN filter_good_forms(forms) ELSE forms
    /\ outcome' = "returned"
    /\ pc' = "done"
    /\ UNCHANGED <<data, data0, impl, text, apply_filters, wtext, words, parse_result, idx,
                   reductions>>

\* parse.py Parser.parse, lines 44-45: validation
ParseOld(t) ==
    /\ pc = "idle"
    /\ impl' = "old"
    /\ text' = t
    /\ apply_filters' = TRUE
    /\ IF ~IsAlpha(t)
       THEN /\ outcome' = "WordsException"
            /\ pc' = "done"
       ELSE /\ outcome' = "none"
            /\ pc' = "o_split"
    /\ UNCHANGED <<data, data0, wtext, forms, words, parse_result, idx, reductions>>

\* parse.py Parser.parse, lines 48-50
SplitOld ==
    /\ pc = "o_split"
    /\ words' = Parser_split_form_enclitic(data, text)
    /\ parse_result' = <<>>
    /\ idx' = 1
    /\ reductions' = <<>>
    /\ pc' = "o_loop"
    /\ UNCHANGED <<data, data0, impl, text, apply_filters, wtext, forms, outcome>>

\* parse.py Parser.parse, lines 52-60: one turn of the loop over words
LoopOld ==
    /\ pc = "o_loop"
    /\ idx <= Len(words)
    /\ LET word == words[idx]
       IN  IF word.base \in DOMAIN data.uniques
           THEN /\ parse_result' = parse_result \o unique_results(word, data)
                /\ idx' = idx + 1
                /\ UNCHANGED <<data, words, pc, outcome, reductions>>
           ELSE LET res == analyze_forms(word, data)
                IN  /\ data' = apply_writes(data, analyze_forms_writes(word, data))
                    /\ reductions' = reductions \o reduce_calls_at(idx, word, data)
                    /\ words' = IF reduce_called(word, data)
                                THEN [words EXCEPT ![idx].base = reduced_base(@, data)]
                                ELSE words
                    /\ IF res.err # "none"
                       THEN /\ outcome' = res.err
                            /\ pc' = "done"
                            /\ UNCHANGED <<parse_result, idx>>
                       ELSE /\ parse_result' = res.results
                            /\ idx' = idx + 1
                            /\ UNCHANGED <<pc, outcome>>
    /\ UNCHANGED <<data0, impl, text, apply_filters, wtext, forms>>

\* parse.py Parser.parse, line 62: {'word': text, 'defs': ...}
ReturnOld ==
    /\ pc = "o_loop"
    /\ idx > Len(words)
    /\ wtext' = text
    /\ outcome' = "returned"
    /\ pc' = "done"
    /\ UNCHANGED <<data, data0, impl, text, apply_filters, forms, words, parse_result, idx,
                   reductions>>

\* the caller drops the result (or the exception) and the parser is ready for
\* the next call on the same data layer
NextCall ==
    /\ pc = "done"
    /\ pc' = "idle"
    /\ impl' = "none"
    /\ text' = <<>>
    /\ apply_filters' = TRUE
    /\ wtext' = <<>>
    /\ forms' = <<>>
    /\ words' = <<>>
    /\ parse_result' = <<>>
    /\ idx' = 0
    /\ outcome' = "none"
    /\ reductions' = <<>>
    /\ UNCHANGED <<data, data0>>

Next ==
    \/ \E t \in Texts, af \in BOOLEAN : ParseNew(t, af)
    \/ SplitNew
    \/ AnalyseFormNew
    \/ ReturnNew
    \/ \E t \in Texts : ParseOld(t)
    \/ SplitOld
    \/ LoopOld
    \/ ReturnOld
    \/ NextCall

Spec == Init /\ [][Next]_vars

(* ------------------------------ properties ---------------------------- *)
\* a text that is not purely alphabetic: empty, or with a character that is
\* no letter
NonAlphabetic(t) == t = <<>> \/ \E k \in 1..Len(t) : t[k] \in OtherChars
Alphabetic(t) == t # <<>> /\ \A k \in 1..Len(t) : t[k] \in LowerLetters \cup UpperLetters

\* the text with every capital replaced by its small letter
LowerCased(t) == [k \in 1..Len(t) |-> IF t[k] = "A" THEN "a" ELSE t[k]]

Returned == pc = "done" /\ outcome = "returned"

Range(seq) == {seq[i] : i \in 1..Len(seq)}

\* the analyses of the Word returned by parser.py
Analyses == get_analyses(forms)

\* the matched stems of the results returned by parse.py
ResultStems == Concat([i \in 1..Len(parse_result) |-> parse_result[i].stems])

\* C1: a call with a non-alphabetic text has ended with WordsException, and
\* no Word, Form, word list or result exists: no step after the validation ran
C1_NonAlphaRejected ==
    (pc # "idle" /\ NonAlphabetic(text)) =>
        /\ pc = "done"
        /\ outcome = "WordsException"
        /\ wtext = <<>> /\ forms = <<>> /\ words = <<>> /\ parse_result = <<>>
        /\ idx = 0

\* a text with letters in front and a digit at its end was rejected
C1_Witness ==
    /\ pc = "done" /\ outcome = "WordsException"
    /\ Len(text) >= 2 /\ text[1] \in LowerLetters /\ text[Len(text)] \in OtherChars

\* C2: every call with an alphabetic text ends by returning, and the text of the
\* result is the lower-cased input
C2_Claim ==
    (pc = "done" /\ Alphabetic(text)) =>
        (outcome = "returned" /\ wtext = LowerCased(text))

\* C3: when the call returns, every unique entry registered under the text or
\* under the base of one of its Forms has its analysis in the result
C3_Claim ==
    Returned =>
        /\ impl = "new" =>
            \A base \in {wtext} \cup {forms[i].text : i \in 1..Len(forms)} :
                base \in DOMAIN data.uniques =>
                    \A j \in 1..Len(data.uniques[base]) :
                        \E a \in 1..Len(Analyses) :
                            /\ Analyses[a].lexeme.unique
                            /\ \E k \in 1..Len(Analyses[a].inflections) :
                                /\ Analyses[a].inflections[k].stem = base
                                /\ Analyses[a].inflections[k].wordType
                                        = data.uniques[base][j].pos
        /\ impl = "old" =>
            \A base \in {text} \cup {StripSuffix(text, e.orth) :
                                        e \in {w.encl : w \in Range(words)}} :
                base \in DOMAIN data.uniques =>
                    \A j \in 1..Len(data.uniques[base]) :
                        \E r \in 1..Len(parse_result) :
                            parse_result[r].w = data.uniques[base][j]

\* two endings of parser.py equal by value
SameEnding(x, y) ==
    /\ x.wordType = y.wordType /\ x.category = y.category
    /\ x.affix = y.affix /\ x.features = y.features

\* C4: no analysis of a returned result lists two endings that are equal by
\* value
C4_Claim ==
    Returned =>
        /\ \A a \in 1..Len(Analyses) :
                \A i, j \in 1..Len(Analyses[a].inflections) :
                    i # j => ~SameEnding(Analyses[a].inflections[i],
                                         Analyses[a].inflections[j])
        /\ \A s \in 1..Len(ResultStems) :
                \A i, j \in 1..Len(ResultStems[s].infls) :
                    i # j => ResultStems[s].infls[i] # ResultStems[s].infls[j]

\* the headword id has a filled slot in the wordlist
Resolvable(wid) ==
    /\ wid >= 0 /\ wid < Len(data.wordlist)
    /\ data.wordlist[wid + 1] # EmptyEntry

\* C5: a call with an alphabetic text raises nothing, whatever headword ids the
\* matched stems name, and with filters no returned analysis names a headword
\* whose slot is absent or empty
C5_Claim ==
    /\ (pc = "done" /\ Alphabetic(text)) => outcome \notin {"IndexError", "KeyError", "ValueError"}
    /\ (Returned /\ apply_filters) =>
        /\ \A a \in 1..Len(Analyses) :
                Analyses[a].lexeme.unique \/ Resolvable(Analyses[a].lexeme.id)
        /\ \A s \in 1..Len(ResultStems) : Resolvable(ResultStems[s].st.wid)

\* C6: every table of the data layer equals its value before the first call
C6_DataLayerFrame == data = data0

\* a call that matched stems and resolved their headwords has returned
C6_Witness ==
    /\ Returned
    /\ data = data0
    /\ \/ impl = "old" /\ ResultStems # <<>>
       \/ impl = "new" /\ \E a \in 1..Len(Analyses) : Analyses[a].lexeme.roots # <<>>

\* s is a prefix of t
IsPrefix(s, t) == Len(s) <= Len(t) /\ SubSeq(t, 1, Len(s)) = s

\* C7: a turn of the loop over the Forms keeps every analysis that the earlier
\* turns put into the result
C7_Claim ==
    [][/\ (pc = "o_loop" /\ pc' \in {"o_loop", "done"}) => IsPrefix(parse_result, parse_result')
       /\ (pc = "n_analyse" /\ outcome' \in {"none", "returned"}) =>
            \A i \in 1..Min(idx - 1, Len(forms)) :
                \A j \in 1..Len(forms[i].analyses) :
                    \E a \in 1..Len(get_analyses(forms')) :
                        get_analyses(forms')[a] = forms[i].analyses[j].v]_vars

\* the fourth principal part of a list of parts, if any
IsFourthPart(orth, parts) == Len(parts) >= 4 /\ parts[4] = orth

\* C8: in a returned result, a stem spelled as the fourth principal part of its
\* verb has no V ending, and any other stem of a verb has no VPAR ending
C8_Claim ==
    Returned =>
        /\ \A r \in 1..Len(parse_result) :
            ("pos" \in DOMAIN parse_result[r].w /\ "parts" \in DOMAIN parse_result[r].w
                /\ parse_result[r].w.pos = "V") =>
                \A s \in 1..Len(parse_result[r].stems) :
                    \A i \in 1..Len(parse_result[r].stems[s].infls) :
                        IF IsFourthPart(parse_result[r].stems[s].st.orth, parse_result[r].w.parts)
                        THEN parse_result[r].stems[s].infls[i].pos # "V"
                        ELSE parse_result[r].stems[s].infls[i].pos # "VPAR"
        /\ \A a \in 1..Len(Analyses) :
            (Analyses[a].lexeme.wordType = "V" /\ ~Analyses[a].lexeme.unique) =>
                \A i \in 1..Len(Analyses[a].inflections) :
                    IF IsFourthPart(Analyses[a].inflections[i].stem, Analyses[a].lexeme.roots)
                    THEN Analyses[a].inflections[i].wordType # "V"
                    ELSE Analyses[a].inflections[i].wordType # "VPAR"

\* the entries of the packons / not_packons list that applies to a text
PackEntries(t) ==
    LET lst == IF Len(t) >= 2 /\ t[1] = "q" /\ t[2] = "u" THEN "packons" ELSE "not_packons"
    IN  IF lst \in DOMAIN data.addons THEN data.addons[lst] ELSE <<>>

\* entry k of the list is a suffix of t and leaves a base
Strips(entries, k, t) ==
    /\ Len(entries[k].orth) < Len(t)
    /\ \A c \in 1..Len(entries[k].orth) :
            t[Len(t) - Len(entries[k].orth) + c] = entries[k].orth[c]

\* the state right after split_form_enclitic
JustSplitNew == pc = "n_analyse" /\ idx = 1
JustSplitOld == pc = "o_loop" /\ idx = 1

\* the aids of the enclitics of the Forms that split_form_enclitic produced
SplitAids ==
    IF impl = "new" THEN [i \in 1..Len(forms) |-> forms[i].enclitic.id]
    ELSE [i \in 1..Len(words) |-> words[i].encl.aid]

SplitBases ==
    IF impl = "new" THEN [i \in 1..Len(forms) |-> forms[i].text]
    ELSE [i \in 1..Len(words) |-> words[i].base]

\* C9: the Forms start with the text itself, and at most one of them comes from
\* the packons / not_packons list: the one of the first entry that strips
C9_Claim ==
    (JustSplitNew \/ JustSplitOld) =>
        LET t == IF impl = "new" THEN wtext ELSE text
            entries == PackEntries(t)
            fromPack == {i \in 1..Len(SplitAids) :
                            \E k \in 1..Len(entries) : entries[k].aid = SplitAids[i]}
        IN  /\ SplitBases[1] = t /\ SplitAids[1] = -1
            /\ Cardinality(fromPack) <= 1
            /\ \A i \in fromPack :
                \E k \in 1..Len(entries) :
                    /\ entries[k].aid = SplitAids[i]
                    /\ Strips(entries, k, t)
                    /\ \A k2 \in 1..(k - 1) : ~Strips(entries, k2, t)

\* C10: every Form that split_form_enclitic produced has a non-empty base
C10_Claim ==
    (JustSplitNew \/ JustSplitOld) =>
        \A i \in 1..Len(SplitBases) : SplitBases[i] # <<>>


\* the Analysis is one of an irregular form, which names no headword
Exempt(a) == a.lexeme.unique

\* the headword of the Analysis has a slot in the word list that holds an entry
Resolved(a) == Truthy(Slot(data.wordlist, a.lexeme.id))

\* the position classes of an enclitic that name no part of speech
Wildcards == {"X", "PACK"}

\* the enclitic of the Analysis may attach to its part of speech
Attaches(a) ==
    \/ a.enclitic.position[1] \in Wildcards
    \/ a.enclitic.position[1] = a.lexeme.wordType

\* C11: in the Word returned by parser.py with filters applied, every Analysis
\* of a regular headword has a filled word list slot, with or without an
\* enclitic, and an Analysis with an enclitic has one that may attach to it
C11_Claim ==
    (Returned /\ impl = "new" /\ apply_filters) =>
        \A a \in Range(Analyses) :
            /\ ~Exempt(a) => Resolved(a)
            /\ a.enclitic # NoEnclitic => Attaches(a)


\* the category codes of a stem and an ending name one declension class
SameDeclension(stem, infl) == infl.n[1] = stem.n[1]

\* the last feature slot of the ending is the leading form marker of the stem,
\* or the wildcard "C"
GenderFits(stem, infl) ==
    LET it == FormText(infl.form)
        st == FormText(stem.form)
    IN  it[Len(it)] = st[1] \/ it[Len(it)] = "C"

\* same declension class, second category components that differ and are no
\* wildcard, and gender markers that differ
Mismatched(stem, infl) ==
    /\ SameDeclension(stem, infl)
    /\ infl.n[2] # stem.n[2] /\ infl.n[2] # 0 /\ stem.n[2] # 0
    /\ FormText(infl.form)[Len(FormText(infl.form))] # FormText(stem.form)[1]

\* C12: every noun ending that parse.py matched to a noun stem agrees with it
\* on the declension class and fits its gender marker (or is the wildcard "C"),
\* and no matched pair is one of differing second components and genders
C12_Claim ==
    impl = "old" =>
        \A s \in Range(ResultStems) : \A k \in 1..Len(s.infls) :
            (s.st.pos = "N" /\ s.infls[k].pos = "N") =>
                /\ SameDeclension(s.st, s.infls[k])
                /\ GenderFits(s.st, s.infls[k])
                /\ ~Mismatched(s.st, s.infls[k])


\* the entries of an affix list whose spelling s starts with / ends with
PrefixHits(table, s) == {k \in 1..Len(table) : StartsWith(s, table[k].orth)}
SuffixHits(table, s) == {k \in 1..Len(table) : EndsWith(s, table[k].orth)}

\* the least member of a non-empty set of positions
First(S) == CHOOSE k \in S : \A j \in S : k <= j

\* s without the first entry of the prefix list that it starts with, if any
OnePrefixOff(d, s) ==
    IF "prefixes" \in DOMAIN d.addons /\ PrefixHits(d.addons["prefixes"], s) # {}
    THEN LET p == d.addons["prefixes"][First(PrefixHits(d.addons["prefixes"], s))].orth
         IN  SubSeq(s, Len(p) + 1, Len(s))
    ELSE s

\* s without the first entry of the suffix list that it ends with, if any
OneSuffixOff(d, s) ==
    IF "suffixes" \in DOMAIN d.addons /\ SuffixHits(d.addons["suffixes"], s) # {}
    THEN LET q == d.addons["suffixes"][First(SuffixHits(d.addons["suffixes"], s))].orth
         IN  SubSeq(s, 1, Len(s) - Len(q))
    ELSE s

\* C13: parse.py calls reduce at most once for a Form, only from the run that
\* is not itself started by reduce and only when the direct analysis of the
\* Form gave no result; the call leaves the base less the first fitting
\* entry of the prefix list and the first fitting entry of the suffix list
C13_ReduceOnce ==
    impl = "old" =>
        /\ \A j, k \in 1..Len(reductions) :
                reductions[j].form = reductions[k].form => j = k
        /\ \A k \in 1..Len(reductions) :
            LET r == reductions[k]
            IN  /\ r.form \in 1..Len(words)
                /\ r.form < idx \/ pc = "done"
                /\ ~r.reduced
                /\ direct_forms(r.option, data0).err = "none"
                /\ direct_forms(r.option, data0).results = <<>>
                /\ r.base = OneSuffixOff(data, OnePrefixOff(data, r.option.base))
                /\ words[r.form].base = r.base

\* reduce ran for a Form whose base ends with two entries of the suffix list,
\* one after the other, and the run on the reduced base gave no result either
C13_Witness ==
    /\ impl = "old" /\ Returned
    /\ \E k \in 1..Len(reductions) :
        LET r == reductions[k]
        IN  /\ r.base # r.option.base
            /\ "suffixes" \in DOMAIN data.addons
            /\ SuffixHits(data.addons["suffixes"], r.base) # {}
            /\ direct_forms([r.option EXCEPT !.base = r.base], data0).results = <<>>

=============================================================================
